---- MODULE Spec2Model ----
(***************************************************************************)
(* Model of the extractor registry (yt_dlp/extractor/__init__.py) and of   *)
(* the Mildom extractors (youtube_dl/extractor/mildom.py).                 *)
(***************************************************************************)
EXTENDS Integers, Sequences, FiniteSets, TLC

\* ------------------------------------------------------------------ bounds
NumBuiltins == 2
NumPlugins == 2
NumInstances == 2
NumCallers == 2
MaxCalls == 2
MaxPages == 3
MaxPageLen == 2
MaxEpisodes == 3
MaxUrlLen == 4
MaxHops == 3

VARIABLES
    \* extractor registry, yt_dlp/extractor/__init__.py
    regpc,               \* position in the module body: "import", "built", "loaded"
    lazy,                \* _LAZY_LOADER
    globalsOrder,        \* the names of globals(), in insertion order
    ALL_CLASSES,         \* _ALL_CLASSES
    SELFHOSTED_CLASSES,  \* _SELFHOSTED_CLASSES
    PLUGIN_CLASSES,      \* _PLUGIN_CLASSES.values()
    resolved             \* the resolutions made: <<>>, or <<[url, ie]>> for the last one

regVars == <<regpc, lazy, globalsOrder, ALL_CLASSES, SELFHOSTED_CLASSES,
             PLUGIN_CLASSES, resolved>>

VARIABLES
    \* Mildom session state, youtube_dl/extractor/mildom.py
    DISPATCHER_CONFIG,   \* self._DISPATCHER_CONFIG, by handler instance
    GUEST_ID,            \* self._GUEST_ID, by handler instance
    cookies,             \* the gid cookie of www.mildom.com and of m.mildom.com
    call,                \* by caller: the call it is in and where it stands
    active,              \* the callers that make calls
    ncalls,              \* calls started so far
    firstConfig,         \* <<>>, or <<v>>: v was returned by the first
                         \* _fetch_dispatcher_config that returned
    firstGuest,          \* <<>>, or <<v>>: v was returned by the first guest_id
    chainRuns            \* times guest_id ran its chain of sources

mildomVars == <<DISPATCHER_CONFIG, GUEST_ID, cookies, call, active, ncalls,
                firstConfig, firstGuest, chainRuns>>

VARIABLES
    \* one call of try_get, youtube_dl/extractor/mildom.py
    site,                \* the call of try_get that is made
    yields,              \* by producer: what it yields if it is evaluated
    evaluated,           \* the producers evaluated, in order
    value                \* <<>>, or <<v>> once try_get has returned v

tryVars == <<site, yields, evaluated, value>>

VARIABLES
    \* MildomUserVodIE._real_extract
    source,              \* the playback list of the user, page by page
    uvpc,                \* position in _real_extract
    page,                \* the loop variable of line 288
    results,             \* line 287
    requests,            \* the requests sent, in order
    playlist             \* <<>>, or <<the playlist returned>>

userVodVars == <<source, uvpc, page, results, requests, playlist>>

VARIABLES
    \* NhkVodProgramIE._real_extract and NhkVodIE._real_extract, yt_dlp/extractor/nhk.py
    program,             \* the program URL the handler is called with
    episodes,            \* the episodes the API lists for the program
    nhkpc,               \* position in NhkVodProgramIE._real_extract
    entries,             \* line 168
    nextEpisode,         \* the index of the episode the loop of line 169 is at
    nhkResult,           \* <<>>, or <<what _real_extract returned or raised>>
    vodCall              \* <<>>, or <<the last call of NhkVodIE._real_extract>>

nhkVars == <<program, episodes, nhkpc, entries, nextEpisode, nhkResult, vodCall>>

VARIABLES
    \* one call of _real_extract of TwitCastingIE, MildomIE or MildomVodIE
    handler,             \* the handler that is called
    titleYields,         \* by title producer: what it yields if it is evaluated
    pageData,            \* what else the page and the requests answer
    mediaResult          \* <<>>, or <<what _real_extract returned or raised>>

extractVars == <<handler, titleYields, pageData, mediaResult>>

VARIABLES
    \* resolution of an NHK for School URL, yt_dlp/extractor/nhk.py
    schoolUrl,           \* the URL
    schoolOrder,         \* the extractors in the order of registration
    schoolIE             \* <<>>, or <<the extractor the URL resolved to>>

schoolVars == <<schoolUrl, schoolOrder, schoolIE>>

VARIABLES
    \* list_extractors, yt_dlp/extractor/__init__.py
    IE_NAME,             \* by extractor class: its IE_NAME
    listed               \* <<>>, or <<the last call of list_extractors>>

listVars == <<IE_NAME, listed>>

VARIABLES
    \* TwitCastingUserIE._entries, yt_dlp/extractor/twitcasting.py
    history,             \* the history pages of the uploader, as the site serves them
    twpc,                \* position in _entries
    page_num,            \* the loop variable of line 189
    next_url,            \* <<>> for None, or <<the page to fetch next>>
    fetched,             \* the pages fetched, in order
    yielded              \* the entries yielded, in order

twUserVars == <<history, twpc, page_num, next_url, fetched, yielded>>

VARIABLES
    \* one resolution of a URL through transparent redirects
    chain,               \* the handlers run so far, each with its URL, in order
    handed               \* <<>>, or <<what the last handler returned or raised>>

pipeVars == <<chain, handed>>

\* The parts added after the Mildom ones.
moreVars == <<nhkVars, extractVars, schoolVars, listVars, twUserVars, pipeVars>>

vars == <<regVars, mildomVars, tryVars, userVodVars, moreVars>>

nonRegVars == <<mildomVars, tryVars, userVodVars, moreVars>>

nonMildomVars == <<regVars, tryVars, userVodVars, moreVars>>

nonTryVars == <<regVars, mildomVars, userVodVars, moreVars>>

nonUserVodVars == <<regVars, tryVars, moreVars>>

firstVars == <<regVars, mildomVars, tryVars, userVodVars>>

nonNhkVars == <<firstVars, extractVars, schoolVars, listVars, twUserVars, pipeVars>>

nonExtractVars == <<regVars, tryVars, userVodVars, nhkVars, schoolVars, listVars,
                    twUserVars, pipeVars>>

nonSchoolVars == <<firstVars, nhkVars, extractVars, listVars, twUserVars, pipeVars>>

nonListVars == <<mildomVars, tryVars, userVodVars, nhkVars, extractVars,
                 schoolVars, twUserVars, pipeVars>>

nonPipeVars == <<firstVars, nhkVars, extractVars, schoolVars, listVars, twUserVars>>

nonTwUserVars == <<firstVars, nhkVars, extractVars, schoolVars, listVars, pipeVars>>

None == "None"

Range(s) == {s[i] : i \in DOMAIN s}

Last(s) == s[Len(s)]

\* ======================================================================
\* States of the parts a specification leaves alone
\* ======================================================================

\* The extractor module is loaded (non-lazy, no plugins); nothing is resolved.
RegIdle ==
    /\ regpc = "idle"
    /\ lazy = FALSE
    /\ globalsOrder = <<>>
    /\ ALL_CLASSES = <<>>
    /\ SELFHOSTED_CLASSES = <<>>
    /\ PLUGIN_CLASSES = <<>>
    /\ resolved = <<>>

\* No Mildom handler has been called.
MildomIdle ==
    /\ DISPATCHER_CONFIG = [i \in 1..NumInstances |-> None]
    /\ GUEST_ID = [i \in 1..NumInstances |-> None]
    /\ cookies = [www |-> None, m |-> None]
    /\ call = <<>>
    /\ active = {}
    /\ ncalls = 0
    /\ firstConfig = <<>>
    /\ firstGuest = <<>>
    /\ chainRuns = 0

\* try_get is not being called.
TryIdle ==
    /\ site = "none"
    /\ yields = <<>>
    /\ evaluated = <<>>
    /\ value = <<>>

\* MildomUserVodIE is not extracting.
UserVodIdle ==
    /\ source = <<>>
    /\ uvpc = "idle"
    /\ page = 0
    /\ results = <<>>
    /\ requests = <<>>
    /\ playlist = <<>>

\* No NHK handler has been called.
NhkIdle ==
    /\ program = <<>>
    /\ episodes = <<>>
    /\ nhkpc = "idle"
    /\ entries = <<>>
    /\ nextEpisode = 0
    /\ nhkResult = <<>>
    /\ vodCall = <<>>

\* No media handler has been called.
ExtractIdle ==
    /\ handler = "none"
    /\ titleYields = <<>>
    /\ pageData = <<>>
    /\ mediaResult = <<>>

\* No NHK for School URL is being resolved.
SchoolIdle ==
    /\ schoolUrl = <<>>
    /\ schoolOrder = <<>>
    /\ schoolIE = <<>>

\* list_extractors has not been called.
ListIdle ==
    /\ IE_NAME = <<>>
    /\ listed = <<>>

\* TwitCastingUserIE has not been called.
TwUserIdle ==
    /\ history = <<>>
    /\ twpc = "idle"
    /\ page_num = 0
    /\ next_url = <<>>
    /\ fetched = <<>>
    /\ yielded = <<>>

\* No URL is being resolved through redirects.
PipeIdle ==
    /\ chain = <<>>
    /\ handed = <<>>

MoreIdle ==
    NhkIdle /\ ExtractIdle /\ SchoolIdle /\ ListIdle /\ TwUserIdle /\ PipeIdle

FirstIdle == RegIdle /\ MildomIdle /\ TryIdle /\ UserVodIdle

\* ======================================================================
\* Extractor registry
\* ======================================================================

\* A global name is <<stem, index, suffix>>; a class is identified by its name.
GenericIE == <<"Generic", 0, "IE">>
StreamlinkIE == <<"Streamlink", 0, "IE">>
BuiltinIEs == {<<"Builtin", i, "IE">> : i \in 1..NumBuiltins}
PluginIEs == {<<"Plugin", i, "IE">> : i \in 1..NumPlugins}

\* Names bound by the statements before the extractors are imported.
PreambleNames == << <<"os", 0, "">>, <<"load_plugins", 0, "">> >>

\* Names bound by `from .extractors import *`.
ExtractorNames == BuiltinIEs \cup {GenericIE, StreamlinkIE}

\* name.endswith('IE')
EndsWithIE(name) == name[3] = "IE"

\* ie._SELF_HOSTED: the odd-numbered built-ins stand for the self-hosted ones.
SelfHosted(ie) == ie[1] = "Builtin" /\ ie[2] % 2 = 1

Injective(f) == \A i, j \in DOMAIN f : f[i] = f[j] => i = j

Perms(S) == {f \in [1..Cardinality(S) -> S] : Injective(f)}

OrderedSubsets(S) ==
    {f \in UNION {[1..n -> S] : n \in 0..Cardinality(S)} : Injective(f)}

\* A URL is identified by the set of non-catch-all classes whose suitable()
\* accepts it; the catch-all accepts every URL.
Urls == SUBSET (BuiltinIEs \cup PluginIEs)

Suitable(ie, url) == ie = GenericIE \/ ie \in url

\* lines 21-25: the list comprehension over globals().items()
IsListedName(name) ==
    EndsWithIE(name) /\ name \notin {GenericIE, StreamlinkIE}

NamedClasses(globs) == SelectSeq(globs, IsListedName)

\* lines 21-29, with GenericIE left where the import put it
BuiltClassesUnordered(globs) ==
    SelectSeq(globs, LAMBDA name : EndsWithIE(name) /\ name # StreamlinkIE)

\* lines 21-29: _ALL_CLASSES after the non-lazy branch
BuiltClasses(globs) == Append(NamedClasses(globs), GenericIE)

\* lines 26-28
SelfHostedClasses(classes) == SelectSeq(classes, SelfHosted)

\* lines 12-13: the list the generated lazy_extractors module exports
LazyAllClasses(globs) == Append(NamedClasses(globs), GenericIE)

\* line 32, with the plugins put after the existing classes
AppendPlugins(plugins, classes) == classes \o plugins

\* line 32
WithPlugins(plugins, classes) == plugins \o classes

Reverse(s) == [i \in 1..Len(s) |-> s[Len(s) + 1 - i]]

gen_extractor_classes_reversed == Reverse(ALL_CLASSES)

\* lines 35-39
gen_extractor_classes == ALL_CLASSES

\* The result of a resolution that no extractor accepts.
NoIE == <<"None", 0, "">>

\* The first extractor of the list whose suitable() accepts the URL.
RECURSIVE FirstSuitable(_, _)
FirstSuitable(ies, url) ==
    IF ies = <<>> THEN NoIE
    ELSE IF Suitable(Head(ies), url) THEN Head(ies)
         ELSE FirstSuitable(Tail(ies), url)

resolve(url) == FirstSuitable(gen_extractor_classes, url)

RegInit ==
    /\ regpc = "import"
    /\ lazy \in BOOLEAN
    /\ globalsOrder \in {PreambleNames \o p : p \in Perms(ExtractorNames)}
    /\ ALL_CLASSES = <<>>
    /\ SELFHOSTED_CLASSES = <<>>
    /\ PLUGIN_CLASSES = <<>>
    /\ resolved = <<>>
    /\ MildomIdle /\ TryIdle /\ UserVodIdle /\ MoreIdle

\* lines 10-15: the lazy loader is importable
ImportLazy ==
    /\ regpc = "import"
    /\ lazy
    /\ ALL_CLASSES' = LazyAllClasses(globalsOrder)
    /\ SELFHOSTED_CLASSES' = <<>>
    /\ regpc' = "built"
    /\ UNCHANGED <<lazy, globalsOrder, PLUGIN_CLASSES, resolved>>
    /\ UNCHANGED nonRegVars

\* lines 19-29
ImportExtractors ==
    /\ regpc = "import"
    /\ ~lazy
    /\ ALL_CLASSES' = BuiltClasses(globalsOrder)
    /\ SELFHOSTED_CLASSES' = SelfHostedClasses(NamedClasses(globalsOrder))
    /\ regpc' = "built"
    /\ UNCHANGED <<lazy, globalsOrder, PLUGIN_CLASSES, resolved>>
    /\ UNCHANGED nonRegVars

\* lines 31-32
LoadPlugins ==
    /\ regpc = "built"
    /\ \E plugins \in OrderedSubsets(PluginIEs) :
        /\ PLUGIN_CLASSES' = plugins
        /\ ALL_CLASSES' = WithPlugins(plugins, ALL_CLASSES)
    /\ regpc' = "loaded"
    /\ UNCHANGED <<lazy, globalsOrder, SELFHOSTED_CLASSES, resolved>>
    /\ UNCHANGED nonRegVars

\* A URL is resolved against the list of gen_extractor_classes(). Resolving
\* changes nothing but the record of the resolution, so the states after a
\* later resolution are those after a first one: one is followed.
Resolve ==
    /\ regpc = "loaded"
    /\ resolved = <<>>
    /\ \E url \in Urls : resolved' = <<[url |-> url, ie |-> resolve(url)]>>
    /\ UNCHANGED <<regpc, lazy, globalsOrder, ALL_CLASSES, SELFHOSTED_CLASSES,
                   PLUGIN_CLASSES>>
    /\ UNCHANGED nonRegVars

RegNext == ImportLazy \/ ImportExtractors \/ LoadPlugins \/ Resolve

SpecRegistry == RegInit /\ [][RegNext]_vars

\* ---------------------------------------------------------------- claims

\* C1: the handler chosen for a URL is the first extractor, in the order of
\* the list gen_extractor_classes() returns, whose URL predicate matches; an
\* extractor that comes later in the list is never chosen over an earlier match.
FirstMatchWins ==
    resolved # <<>> =>
        \A i \in 1..Len(ALL_CLASSES) :
            ( /\ Suitable(ALL_CLASSES[i], resolved[1].url)
              /\ \A j \in 1..(i - 1) : ~Suitable(ALL_CLASSES[j], resolved[1].url) )
            => resolved[1].ie = ALL_CLASSES[i]

\* A URL that two registered non-catch-all extractors match has been resolved.
FirstMatchWinsWitness ==
    /\ resolved # <<>>
    /\ \E i, j \in 1..Len(ALL_CLASSES) :
        /\ i < j
        /\ ALL_CLASSES[j] # GenericIE
        /\ Suitable(ALL_CLASSES[i], resolved[1].url)
        /\ Suitable(ALL_CLASSES[j], resolved[1].url)

PluginStep == regpc = "built" /\ regpc' = "loaded"

CatchAllLast ==
    /\ regpc \in {"built", "loaded"} =>
        /\ ALL_CLASSES # <<>>
        /\ Last(ALL_CLASSES) = GenericIE
        /\ \A i \in 1..(Len(ALL_CLASSES) - 1) : ALL_CLASSES[i] # GenericIE
    /\ (resolved # <<>> /\ resolved[1].ie = GenericIE) =>
        \A i \in 1..(Len(ALL_CLASSES) - 1) :
            ~Suitable(ALL_CLASSES[i], resolved[1].url)

\* Built-ins and plugins are registered and a URL fell through to the catch-all.
CatchAllLastWitness ==
    /\ regpc = "loaded"
    /\ PLUGIN_CLASSES # <<>>
    /\ Len(ALL_CLASSES) > Len(PLUGIN_CLASSES) + 1
    /\ resolved # <<>>
    /\ resolved[1].ie = GenericIE


\* ======================================================================
\* Mildom: dispatcher config and guest id (MildomBaseIE)
\* ======================================================================

Instances == 1..NumInstances
Callers == 1..NumCallers

\* Dispatcher configs: two objects that carry location, country and cluster,
\* and the empty object.
FullConfigs == {"cfgA", "cfgB"}
ConfigValues == FullConfigs \cup {"cfgEmpty"}

\* The truth value Python gives a cached attribute (lines 54 and 87).
Truthy(v) == v \notin {None, "cfgEmpty", ""}

\* lines 41-43: dc['location'], dc['country'], dc['cluster']
HasKeys(cfg) == cfg \in FullConfigs

\* What the request of lines 56-73 can come to.
PrimaryOutcomes ==
    {<<"TransportError", "">>, <<"BadJson", "">>, <<"NoData", "">>,
     <<"BadBase64", "">>, <<"BadInnerJson", "">>}
        \cup {<<"Ok", v>> : v \in ConfigValues}

\* The exception lines 56-73 raise on each failure.
PrimaryException(o) ==
    CASE o[1] \in {"TransportError", "BadJson"} -> "ExtractorError"  \* _download_json
      [] o[1] = "NoData" -> "KeyError"                \* tmp['data']
      [] o[1] = "BadBase64" -> "binascii.Error"       \* base64.b64decode
      [] o[1] = "BadInnerJson" -> "ExtractorError"    \* _parse_json

\* What the request of lines 75-77 can come to.
FallbackOutcomes ==
    {<<"TransportError", "">>, <<"BadJson", "">>}
        \cup {<<"Ok", v>> : v \in ConfigValues}

\* line 74: except ExtractorError
ExceptCatches(exc) == exc = "ExtractorError"

\* What the h5init request of lines 91-93 can come to.
H5initOutcomes ==
    {<<"TransportError", "">>, <<"NoBody", "">>, <<"NoGuestId", "">>,
     <<"EmptyGuestId", "">>, <<"IntGuestId", "">>, <<"Ok", "gidA">>}

\* lines 34 and 91-93: what the first producer of guest_id yields
H5initProduces(o) ==
    CASE o[1] = "TransportError" -> <<"raise", "ExtractorError">>  \* _download_json
      [] o[1] = "NoBody" -> <<"raise", "KeyError">>       \* [...]['body']
      [] o[1] = "NoGuestId" -> <<"raise", "KeyError">>    \* [...]['guest_id']
      [] o[1] = "EmptyGuestId" -> <<"none", "">>          \* '' or None
      [] o[1] = "IntGuestId" -> <<"int", "7">>
      [] o[1] = "Ok" -> <<"str", o[2]>>

\* lines 94-95: _get_cookies(...).get('gid').value
CookieProduces(v) ==
    IF v = None THEN <<"raise", "AttributeError">> ELSE <<"str", v>>

\* The failures of a producer that try_get passes over.
TryGetCatches(exc) == TRUE

\* try_get passes over a producer that fails, yields null or yields a value
\* of another type than the expected one.
TryGetSkips(o, type) ==
    \/ o[1] = "raise" /\ TryGetCatches(o[2])
    \/ o[1] = "none"
    \/ o[1] \notin {"raise", "none", type}

\* try_get over the outcomes its producers would have, the first n of which
\* are evaluated already.
RECURSIVE TryGetScan(_, _, _)
TryGetScan(outs, type, n) ==
    IF outs = <<>> THEN [kind |-> "return", value |-> None, evaluated |-> n]
    ELSE IF TryGetSkips(Head(outs), type)
         THEN TryGetScan(Tail(outs), type, n + 1)
         ELSE IF Head(outs)[1] = "raise"
              THEN [kind |-> "raise", value |-> Head(outs)[2], evaluated |-> n + 1]
              ELSE [kind |-> "return", value |-> Head(outs)[2], evaluated |-> n + 1]

try_get(outs, type) == TryGetScan(outs, type, 0)

\* line 96 without the `or ''`
GuestIdValueRaw(v) == v

\* line 96: try_get(...) or ''
GuestIdValue(v) == IF Truthy(v) THEN v ELSE ""

\* guest_frames counts the activations of guest_id of the call; h5init_query
\* is <<>>, or <<the __guest_id of the query of the h5init request>>.
IdleCall ==
    [op |-> "none", inst |-> 1, pc |-> "idle", log |-> <<>>, srcs |-> <<>>,
     prior |-> <<>>, gprior |-> <<>>, res |-> <<"none", "">>,
     guest_frames |-> 0, h5init_query |-> <<>>]

Done(rec, r) == [rec EXCEPT !.pc = "done", !.res = r]

\* lines 89-97, from the point where the first producer has yielded o1
GuestFinish(rec, gid, o1) ==
    LET outs == <<o1, CookieProduces(cookies.www), CookieProduces(cookies.m)>>
        t == try_get(outs, "str")
        rec1 == [rec EXCEPT !.srcs = SubSeq(outs, 1, t.evaluated)]
    IN  IF t.kind = "raise"
        THEN [rec |-> Done(rec1, <<"raise", t.value>>), gid |-> gid]
        ELSE [rec |-> Done(rec1, <<"return", GuestIdValue(t.value)>>),
              gid |-> [gid EXCEPT ![rec.inst] = GuestIdValue(t.value)]]

\* line 40 with guest_id() called whatever init is
CommonQueriesGuestIdAlways(init) == <<"call", "guest_id">>

\* line 40: '__guest_id': '' if init else self.guest_id()
CommonQueriesGuestId(init) ==
    IF init THEN <<"value", "">> ELSE <<"call", "guest_id">>

\* lines 38-43 and 33-34 for init=True (line 93), once the config is there
AfterConfig(rec, gid, cfg) ==
    LET q == CommonQueriesGuestId(TRUE)
        rec1 == [rec EXCEPT !.h5init_query = <<q>>,
                            !.guest_frames = IF q[1] = "call" THEN @ + 1 ELSE @]
    IN  IF HasKeys(cfg)
        THEN [rec |-> [rec1 EXCEPT !.pc = "h5init"], gid |-> gid]
        ELSE GuestFinish(rec1, gid, <<"raise", "KeyError">>)

\* line 78: _fetch_dispatcher_config returns cfg to its caller
ConfigReturned(rec, gid, cfg) ==
    IF rec.op = "fetch"
    THEN [rec |-> Done(rec, <<"return", cfg>>), gid |-> gid]
    ELSE AfterConfig(rec, gid, cfg)

\* _fetch_dispatcher_config raises exc to its caller
ConfigRaised(rec, gid, exc) ==
    IF rec.op = "fetch"
    THEN [rec |-> Done(rec, <<"raise", exc>>), gid |-> gid]
    ELSE GuestFinish(rec, gid, <<"raise", exc>>)

NoteConfig(cfg) == IF firstConfig = <<>> THEN <<cfg>> ELSE firstConfig

NoteGuest(rec) ==
    IF firstGuest = <<>> /\ rec.op = "guest" /\ rec.pc = "done"
       /\ rec.res[1] = "return"
    THEN <<rec.res[2]>> ELSE firstGuest

\* No handler instance has cached anything and no call has been made.
MildomStart ==
    /\ DISPATCHER_CONFIG = [i \in Instances |-> None]   \* line 26
    /\ GUEST_ID = [i \in Instances |-> None]            \* line 25
    /\ call = [c \in Callers |-> IdleCall]
    /\ ncalls = 0
    /\ firstConfig = <<>>
    /\ firstGuest = <<>>
    /\ chainRuns = 0

\* A caller calls _fetch_dispatcher_config on an instance: lines 54-72, 78.
CallFetch(c) ==
    /\ c \in active
    /\ call[c].pc \in {"idle", "done"}
    /\ ncalls < MaxCalls
    /\ ncalls' = ncalls + 1
    /\ \E i \in Instances :
        LET rec == [IdleCall EXCEPT !.op = "fetch", !.inst = i,
                                    !.prior = firstConfig, !.gprior = firstGuest]
        IN  IF Truthy(DISPATCHER_CONFIG[i])
            THEN /\ call' = [call EXCEPT ![c] =
                                Done(rec, <<"return", DISPATCHER_CONFIG[i]>>)]
                 /\ firstConfig' = NoteConfig(DISPATCHER_CONFIG[i])
            ELSE /\ call' = [call EXCEPT ![c] = [rec EXCEPT !.pc = "primary"]]
                 /\ UNCHANGED firstConfig
    /\ UNCHANGED <<DISPATCHER_CONFIG, GUEST_ID, cookies, active, firstGuest,
                   chainRuns>>
    /\ UNCHANGED nonMildomVars

\* A caller calls guest_id on an instance: lines 87-93, down to the first
\* request that has to be sent.
CallGuest(c) ==
    /\ c \in active
    /\ call[c].pc \in {"idle", "done"}
    /\ ncalls < MaxCalls
    /\ ncalls' = ncalls + 1
    /\ \E i \in Instances :
        LET rec == [IdleCall EXCEPT !.op = "guest", !.inst = i,
                                    !.prior = firstConfig, !.gprior = firstGuest,
                                    !.guest_frames = 1]
        IN  IF Truthy(GUEST_ID[i])
            THEN /\ call' = [call EXCEPT ![c] = Done(rec, <<"return", GUEST_ID[i]>>)]
                 /\ UNCHANGED <<GUEST_ID, firstConfig, chainRuns>>
            ELSE /\ chainRuns' = chainRuns + 1
                 /\ IF Truthy(DISPATCHER_CONFIG[i])
                    THEN LET eff == AfterConfig(rec, GUEST_ID, DISPATCHER_CONFIG[i])
                         IN  /\ call' = [call EXCEPT ![c] = eff.rec]
                             /\ GUEST_ID' = eff.gid
                             /\ firstConfig' = NoteConfig(DISPATCHER_CONFIG[i])
                    ELSE /\ call' = [call EXCEPT ![c] = [rec EXCEPT !.pc = "primary"]]
                         /\ UNCHANGED <<GUEST_ID, firstConfig>>
    /\ firstGuest' = NoteGuest(call'[c])
    /\ UNCHANGED <<DISPATCHER_CONFIG, cookies, active>>
    /\ UNCHANGED nonMildomVars

\* The answer to the request of lines 56-72 arrives: lines 73-78.
PrimaryResponse(c) ==
    /\ c \in active
    /\ call[c].pc = "primary"
    /\ \E o \in PrimaryOutcomes :
        LET rec == [call[c] EXCEPT !.log = Append(@, <<"primary", o>>)]
        IN  IF o[1] = "Ok"
            THEN LET eff == ConfigReturned(rec, GUEST_ID, o[2])
                 IN  /\ DISPATCHER_CONFIG' =
                            [DISPATCHER_CONFIG EXCEPT ![rec.inst] = o[2]]
                     /\ call' = [call EXCEPT ![c] = eff.rec]
                     /\ GUEST_ID' = eff.gid
                     /\ firstConfig' = NoteConfig(o[2])
            ELSE IF ExceptCatches(PrimaryException(o))
                 THEN /\ call' = [call EXCEPT ![c] = [rec EXCEPT !.pc = "fallback"]]
                      /\ UNCHANGED <<DISPATCHER_CONFIG, GUEST_ID, firstConfig>>
                 ELSE LET eff == ConfigRaised(rec, GUEST_ID, PrimaryException(o))
                      IN  /\ call' = [call EXCEPT ![c] = eff.rec]
                          /\ GUEST_ID' = eff.gid
                          /\ UNCHANGED <<DISPATCHER_CONFIG, firstConfig>>
    /\ firstGuest' = NoteGuest(call'[c])
    /\ UNCHANGED <<cookies, active, ncalls, chainRuns>>
    /\ UNCHANGED nonMildomVars

\* The answer to the request of lines 75-77 arrives: lines 75-78.
FallbackResponse(c) ==
    /\ c \in active
    /\ call[c].pc = "fallback"
    /\ \E o \in FallbackOutcomes :
        LET rec == [call[c] EXCEPT !.log = Append(@, <<"fallback", o>>)]
        IN  IF o[1] = "Ok"
            THEN LET eff == ConfigReturned(rec, GUEST_ID, o[2])
                 IN  /\ DISPATCHER_CONFIG' =
                            [DISPATCHER_CONFIG EXCEPT ![rec.inst] = o[2]]
                     /\ call' = [call EXCEPT ![c] = eff.rec]
                     /\ GUEST_ID' = eff.gid
                     /\ firstConfig' = NoteConfig(o[2])
            ELSE LET eff == ConfigRaised(rec, GUEST_ID, "ExtractorError")
                 IN  /\ call' = [call EXCEPT ![c] = eff.rec]
                     /\ GUEST_ID' = eff.gid
                     /\ UNCHANGED <<DISPATCHER_CONFIG, firstConfig>>
    /\ firstGuest' = NoteGuest(call'[c])
    /\ UNCHANGED <<cookies, active, ncalls, chainRuns>>
    /\ UNCHANGED nonMildomVars

\* The answer to the h5init request arrives: lines 34 and 93-97.
H5initResponse(c) ==
    /\ c \in active
    /\ call[c].pc = "h5init"
    /\ \E o \in H5initOutcomes :
        LET rec == [call[c] EXCEPT !.log = Append(@, <<"h5init", o>>)]
            eff == GuestFinish(rec, GUEST_ID, H5initProduces(o))
        IN  /\ call' = [call EXCEPT ![c] = eff.rec]
            /\ GUEST_ID' = eff.gid
    /\ firstGuest' = NoteGuest(call'[c])
    /\ UNCHANGED <<DISPATCHER_CONFIG, cookies, active, ncalls, firstConfig,
                   chainRuns>>
    /\ UNCHANGED nonMildomVars

MildomNext ==
    \E c \in Callers :
        \/ CallFetch(c)
        \/ CallGuest(c)
        \/ PrimaryResponse(c)
        \/ FallbackResponse(c)
        \/ H5initResponse(c)

\* One caller, whose calls follow one another; any cookie jar.
MildomInit ==
    /\ MildomStart
    /\ cookies \in [www : {None, "gidW"}, m : {None, "gidM"}]
    /\ active = {1}
    /\ RegIdle /\ TryIdle /\ UserVodIdle /\ MoreIdle

SpecMildom == MildomInit /\ [][MildomNext]_vars

\* Every caller is a thread of its own; the cookie jar is empty.
MildomThreadsInit ==
    /\ MildomStart
    /\ cookies = [www |-> None, m |-> None]
    /\ active = Callers
    /\ RegIdle /\ TryIdle /\ UserVodIdle /\ MoreIdle

SpecMildomThreads == MildomThreadsInit /\ [][MildomNext]_vars


\* ---------------------------------------------------------------- claims

FinishedCalls(op) ==
    {c \in active : call[c].pc = "done" /\ call[c].op = op}

\* C4: once a call of _fetch_dispatcher_config has returned a config, every
\* call of it that starts later, on any handler instance, returns that same
\* config and sends neither the primary nor the fallback request.
ConfigFetchedOnce ==
    \A c \in active :
        call[c].prior # <<>> =>
            /\ call[c].pc \notin {"primary", "fallback"}
            /\ \A k \in 1..Len(call[c].log) :
                call[c].log[k][1] \notin {"primary", "fallback"}
            /\ (call[c].pc = "done" /\ call[c].op = "fetch")
                => call[c].res = <<"return", call[c].prior[1]>>

\* C5: a call of _fetch_dispatcher_config that finds nothing cached makes
\* exactly one fallback attempt after any failure of the primary request,
\* raises only if that attempt fails too, and sends at most two requests.
FallbackAfterAnyPrimaryFailure ==
    \A c \in FinishedCalls("fetch") :
        call[c].log # <<>> =>
            /\ Len(call[c].log) <= 2
            /\ call[c].log[1][2][1] # "Ok"
                => /\ Len(call[c].log) = 2
                   /\ call[c].log[2][1] = "fallback"
            /\ call[c].res[1] = "raise"
                => /\ Len(call[c].log) = 2
                   /\ call[c].log[2][2][1] # "Ok"

GuestStrings == {"", "gidA", "gidW", "gidM"}

\* The three sources of guest_id were tried and none gave an id.
AllSourcesUnavailable(rec) ==
    /\ Len(rec.srcs) = 3
    /\ \A k \in 1..3 : rec.srcs[k][1] # "str"

GuestChainRunsOnce ==
    /\ chainRuns <= 1
    /\ \A c \in active :
        (call[c].op = "guest" /\ call[c].gprior # <<>>) =>
            /\ call[c].pc \in {"idle", "done"}
            /\ call[c].log = <<>>
            /\ call[c].pc = "done" => call[c].res = <<"return", call[c].gprior[1]>>

\* C8: of the callers that call _fetch_dispatcher_config or guest_id at the
\* same time with nothing cached, one alone sends the initialization request,
\* and all of them return the same value.
SingleFlight ==
    \A c, d \in active :
        (c # d /\ call[c].inst = call[d].inst /\ call[c].op = call[d].op) =>
            /\ ~(call[c].pc = "primary" /\ call[d].pc = "primary")
            /\ ~(call[c].pc = "h5init" /\ call[d].pc = "h5init")
            /\ (call[c].pc = "done" /\ call[d].pc = "done"
                /\ call[c].res[1] = "return" /\ call[d].res[1] = "return")
                => call[c].res = call[d].res


\* The requests a call has had answered.
RequestsOf(rec) == [k \in 1..Len(rec.log) |-> rec.log[k][1]]

\* C16: a call of guest_id never has guest_id active twice: the query of its
\* h5init request carries the empty string as __guest_id and is built
\* without a call of guest_id, and the call sends each of its requests (the
\* config, the fallback config, h5init) at most once, so that it ends after
\* three answers at most.
GuestIdDepthOne ==
    \A c \in active :
        call[c].op = "guest" =>
            /\ call[c].guest_frames = 1
            /\ call[c].h5init_query \in {<<>>, << <<"value", "">> >>}
            /\ "h5init" \in Range(RequestsOf(call[c])) \cup {call[c].pc}
                    => call[c].h5init_query = << <<"value", "">> >>
            /\ Injective(RequestsOf(call[c]))
            /\ Len(call[c].log) <= 3

\* A call of guest_id fetched the config, sent the h5init request with an
\* empty __guest_id and returned the guest id of the answer.
GuestIdDepthOneWitness ==
    \E c \in active :
        /\ call[c].op = "guest" /\ call[c].pc = "done"
        /\ RequestsOf(call[c]) = <<"primary", "h5init">>
        /\ call[c].h5init_query = << <<"value", "">> >>
        /\ call[c].res = <<"return", "gidA">>

\* ======================================================================
\* The calls of try_get in mildom.py
\* ======================================================================

\* The calls of try_get of guest_id and of MildomIE._real_extract.
Sites == {"guest_id", "title", "description", "uploader"}

\* The producers of each call, with the guest id's cookies put first.
ProducersCookiesFirst(s) ==
    CASE s = "guest_id" -> <<"cookie_www", "cookie_m", "h5init">>
      [] s = "title" -> <<"meta_twitter_description", "anchor_intro">>
      [] s = "description" -> <<"intro", "live_intro">>
      [] s = "uploader" -> <<"meta_twitter_title", "loginname">>

\* The producers of each call, in the order of the tuple it passes.
Producers(s) ==
    CASE s = "guest_id" -> <<"h5init", "cookie_www", "cookie_m">>        \* 91-95
      [] s = "title" -> <<"meta_twitter_description", "anchor_intro">>   \* 128-129
      [] s = "description" -> <<"intro", "live_intro">>                  \* 134-135
      [] s = "uploader" -> <<"meta_twitter_title", "loginname">>         \* 140-141

\* What a producer can yield.
ProducerYields(p) ==
    CASE p = "h5init" ->
            {H5initProduces(o) : o \in H5initOutcomes}
                \cup {<<"raise", PrimaryException(o)>> :
                        o \in {q \in PrimaryOutcomes : q[1] # "Ok"}}
      [] p \in {"cookie_www", "cookie_m"} ->
            {CookieProduces(v) : v \in {None, "gidW"}}
      \* _html_search_meta(...): the content of the tag, or None
      [] p \in {"meta_twitter_description", "meta_twitter_title"} ->
            {<<"none", "">>, <<"str", "X">>}
      \* x['anchor_intro'] and the like: a field of the enterstudio body
      [] OTHER ->
            {<<"raise", "KeyError">>, <<"none", "">>, <<"int", "7">>,
             <<"str", "X">>, <<"str", "Y">>}

AllProducers == UNION {Range(Producers(s)) : s \in Sites}

AllYields == UNION {ProducerYields(p) : p \in AllProducers}

TryInit ==
    /\ site \in Sites
    /\ yields \in {y \in [Range(Producers(site)) -> AllYields] :
                    \A p \in Range(Producers(site)) : y[p] \in ProducerYields(p)}
    /\ evaluated = <<>>
    /\ value = <<>>
    /\ RegIdle /\ MildomIdle /\ UserVodIdle /\ MoreIdle

\* try_get(src, (producers...), compat_str) is called.
TryGetCall ==
    /\ value = <<>>
    /\ LET ps == Producers(site)
           t == try_get([k \in 1..Len(ps) |-> yields[ps[k]]], "str")
       IN  /\ evaluated' = SubSeq(ps, 1, t.evaluated)
           /\ value' = <<[kind |-> t.kind, value |-> t.value]>>
    /\ UNCHANGED <<site, yields>>
    /\ UNCHANGED nonTryVars

TryNext == TryGetCall

SpecTryGet == TryInit /\ [][TryNext]_vars

\* ---------------------------------------------------------------- claims

\* The order in which each lookup lists its sources.
ListedOrder(s) ==
    CASE s = "guest_id" -> <<"h5init", "cookie_www", "cookie_m">>
      [] s = "title" -> <<"meta_twitter_description", "anchor_intro">>
      [] s = "description" -> <<"intro", "live_intro">>
      [] s = "uploader" -> <<"meta_twitter_title", "loginname">>

LookupErrors == {"KeyError", "AttributeError", "TypeError", "IndexError"}

\* The producer yields a non-null string.
YieldsString(p) == yields[p][1] = "str"

\* The producer raises a lookup error or yields null or a value of another type.
YieldsNothing(p) ==
    \/ yields[p][1] = "raise" /\ yields[p][2] \in LookupErrors
    \/ yields[p][1] \in {"none", "int"}

\* C9: the lookup of the guest id, the title, the description and the
\* uploader evaluates its producers in the listed order; it returns what the
\* first producer that yields a non-null string yields and evaluates none
\* after it; producers that raise a lookup error or yield null or another
\* type are passed over, and the lookup yields null when all are.
FirstUsableProducer ==
    value # <<>> =>
        LET L == ListedOrder(site) IN
        /\ \E n \in 0..Len(L) : evaluated = SubSeq(L, 1, n)
        /\ \A k \in 1..Len(L) :
            (YieldsString(L[k]) /\ \A j \in 1..(k - 1) : YieldsNothing(L[j]))
            => /\ value[1] = [kind |-> "return", value |-> yields[L[k]][2]]
               /\ evaluated = SubSeq(L, 1, k)
        /\ (\A k \in 1..Len(L) : YieldsNothing(L[k]))
            => /\ value[1] = [kind |-> "return", value |-> None]
               /\ evaluated = L

\* The guest id was looked up with h5init raising a lookup error and both
\* cookies set: the first cookie was returned and the second never read.
FirstUsableProducerWitness ==
    /\ site = "guest_id"
    /\ value = <<[kind |-> "return", value |-> "gidW"]>>
    /\ yields["h5init"] = <<"raise", "KeyError">>
    /\ YieldsString("cookie_www") /\ YieldsString("cookie_m")
    /\ evaluated = <<"h5init", "cookie_www">>


\* ======================================================================
\* MildomUserVodIE._real_extract
\* ======================================================================

\* itertools.count(1)
FirstPage == 1

user_id == "10093333"

\* Page p of a playback list whose pages have the given lengths: the items
\* of a page are told apart by their v_id.
PageOf(p, n) == [k \in 1..n |-> [v_id |-> <<p, k>>]]

Sources ==
    {[p \in 1..MaxPages |-> PageOf(p, len[p])] : len \in [1..MaxPages -> 0..MaxPageLen]}

\* The body of the answer to the playbackList request for a page; the list
\* has no items past its last page.
PageReply(src, p) == IF p \in 1..Len(src) THEN src[p] ELSE <<>>

\* The requests one _call_api sends when every request is answered: the
\* dispatcher config and the guest id are fetched first unless cached
\* (lines 33-40, 54, 87).
ApiRequests(cfg, gid, req) ==
    (IF Truthy(cfg) THEN <<>> ELSE << <<"serverListV2", 0>> >>)
        \o (IF Truthy(gid) THEN <<>> ELSE << <<"h5init", 0>> >>)
        \o <<req>>

\* What one answered _call_api leaves in the caches of the instance.
ApiConfig(cfg) == IF Truthy(cfg) THEN cfg ELSE "cfgA"
ApiGuestId(gid) == IF Truthy(gid) THEN gid ELSE "gidA"

\* line 298: 'https://www.mildom.com/playback/%s/%s' % (user_id, x['v_id'])
PlaybackUrl(x) == <<"https://www.mildom.com/playback", user_id, x.v_id>>

\* line 298 with the page put in front of the results
ExtendResultsFront(res, reply) ==
    [k \in 1..Len(reply) |-> PlaybackUrl(reply[k])] \o res

\* line 298: results.extend(... for x in reply)
ExtendResults(res, reply) ==
    res \o [k \in 1..Len(reply) |-> PlaybackUrl(reply[k])]

\* line 300: self.url_result(u, ie=MildomVodIE.ie_key())
url_result(u) == [type |-> "url", url |-> u, ie_key |-> "MildomVod"]

\* lines 299-301
playlist_result(res, loginname) ==
    [type |-> "playlist", id |-> user_id,
     title |-> <<"Uploads from", loginname>>,
     entries |-> [k \in 1..Len(res) |-> url_result(res[k])]]

\* The handler is called on its instance, with or without cached session state.
UserVodInit ==
    /\ source \in Sources
    /\ uvpc = "start"
    /\ page = 0
    /\ results = <<>>
    /\ requests = <<>>
    /\ playlist = <<>>
    /\ DISPATCHER_CONFIG \in [Instances -> {None, "cfgA"}]
    /\ GUEST_ID \in [Instances -> {None}]
    /\ cookies = [www |-> None, m |-> None]
    /\ call = <<>>
    /\ active = {}
    /\ ncalls = 0
    /\ firstConfig = <<>>
    /\ firstGuest = <<>>
    /\ chainRuns = 0
    /\ RegIdle /\ TryIdle /\ MoreIdle

UserVodCaches(i) ==
    /\ DISPATCHER_CONFIG' =
        [DISPATCHER_CONFIG EXCEPT ![i] = ApiConfig(DISPATCHER_CONFIG[i])]
    /\ GUEST_ID' = [GUEST_ID EXCEPT ![i] = ApiGuestId(GUEST_ID[i])]
    /\ UNCHANGED <<cookies, call, active, ncalls, firstConfig, firstGuest,
                   chainRuns>>

\* lines 279-288: the profile is fetched and the loop is entered
UserVodProfile ==
    /\ uvpc = "start"
    /\ requests' = requests
            \o ApiRequests(DISPATCHER_CONFIG[1], GUEST_ID[1], <<"profileV2", 0>>)
    /\ UserVodCaches(1)
    /\ results' = <<>>
    /\ page' = FirstPage
    /\ uvpc' = "loop"
    /\ UNCHANGED <<source, playlist>>
    /\ UNCHANGED nonUserVodVars

\* lines 288-298: one turn of the loop
UserVodPage ==
    /\ uvpc = "loop"
    /\ requests' = requests
            \o ApiRequests(DISPATCHER_CONFIG[1], GUEST_ID[1], <<"playbackList", page>>)
    /\ UserVodCaches(1)
    /\ LET reply == PageReply(source, page)
       IN  IF reply = <<>>
           THEN /\ uvpc' = "return"
                /\ UNCHANGED <<page, results>>
           ELSE /\ results' = ExtendResults(results, reply)
                /\ page' = page + 1
                /\ UNCHANGED uvpc
    /\ UNCHANGED <<source, playlist>>
    /\ UNCHANGED nonUserVodVars

\* lines 299-301
UserVodReturn ==
    /\ uvpc = "return"
    /\ playlist' = <<playlist_result(results, "loginname")>>
    /\ uvpc' = "done"
    /\ UNCHANGED <<source, page, results, requests>>
    /\ UNCHANGED mildomVars
    /\ UNCHANGED nonUserVodVars

UserVodNext == UserVodProfile \/ UserVodPage \/ UserVodReturn

SpecUserVod == UserVodInit /\ [][UserVodNext]_vars

\* ---------------------------------------------------------------- claims

\* The number of non-empty pages before the first empty one.
LeadingPages ==
    CHOOSE n \in 0..Len(source) :
        /\ \A p \in 1..n : source[p] # <<>>
        /\ n = Len(source) \/ source[n + 1] = <<>>

\* The pages requested so far, in the order of the requests.
PagesRequested ==
    LET rs == SelectSeq(requests, LAMBDA r : r[1] = "playbackList")
    IN  [k \in 1..Len(rs) |-> rs[k][2]]

\* The entries of the items of pages 1..n, page after page.
RECURSIVE EntriesOfPages(_)
EntriesOfPages(n) ==
    IF n = 0 THEN <<>>
    ELSE EntriesOfPages(n - 1)
            \o [k \in 1..Len(source[n]) |->
                    [type |-> "url", ie_key |-> "MildomVod",
                     url |-> <<"https://www.mildom.com/playback", user_id,
                               source[n][k].v_id>>]]

\* C10: for a playback list of k non-empty pages followed by an empty page,
\* the pages 1, 2, ..., k+1 are requested in that order, each once and none
\* after the empty one, and the playlist returned holds the items of pages
\* 1..k in page order and in-page order.
PagesDrainedInOrder ==
    /\ \E n \in 0..(LeadingPages + 1) : PagesRequested = [k \in 1..n |-> k]
    /\ uvpc \in {"return", "done"} =>
        PagesRequested = [k \in 1..(LeadingPages + 1) |-> k]
    /\ uvpc = "done" =>
        /\ playlist[1].entries = EntriesOfPages(LeadingPages)
        /\ playlist[1].type = "playlist"

\* The playlist of a list with pages [[a, b], [c], []] was returned.
PagesDrainedInOrderWitness ==
    /\ uvpc = "done"
    /\ LeadingPages = 2
    /\ Len(source[1]) = 2
    /\ Len(source[2]) = 1
    /\ Len(playlist[1].entries) = 3

\* ======================================================================
\* NhkVodProgramIE and NhkVodIE, yt_dlp/extractor/nhk.py
\* ======================================================================

\* The URLs of NHK World on demand: a URL has the language, the kind of page
\* ("vod" for an episode page, "program" for a program page, "other" for a
\* page neither pattern matches), video or audio, and the id of the page.
\* _TYPE_REGEX, line 13
MediaTypes == {"video", "audio"}

\* The program pages NhkVodProgramIE is called with (_VALID_URL, line 136).
ProgramUrls ==
    [kind : {"program"}, lang : {"en"}, m_type : MediaTypes, id : {"japanrailway"}]

\* An episode as the program API lists it: the path of its page (None when
\* it has none, "other" for a path that is no episode page), the title of
\* the series, and whether it has a sub_title and a vod_id.  A field the
\* handler never reads for an episode of that path is left at one value.
ListedEpisodes ==
    {e \in [url : {None, "other"} \cup MediaTypes, title : {"S"},
            sub_title : {None, "T"}, vod_id : {None, "V"}, audio : {None}] :
        /\ e.url \notin MediaTypes => e.sub_title = "T"
        /\ e.url # "video" => e.vod_id = "V"}

\* An episode as the episode API returns it.
FetchedEpisodes ==
    [url : {None}, title : {None, "S"}, sub_title : {None, "T"},
     vod_id : {None, "V"}, audio : {None, "A"}]

\* The lists of the program API.  key tells the episodes of a list apart.
Keyed(e, k) ==
    [key |-> k, url |-> e.url, title |-> e.title, sub_title |-> e.sub_title,
     vod_id |-> e.vod_id, audio |-> e.audio]

EpisodeLists ==
    UNION {{[k \in 1..n |-> Keyed(l[k], k)] : l \in [1..n -> ListedEpisodes]} :
            n \in 0..MaxEpisodes}

\* line 174: urljoin(url, episode_path)
ChildUrl(url, episode) ==
    [kind |-> IF episode.url \in MediaTypes THEN "vod" ELSE "other",
     lang |-> url.lang,
     m_type |-> IF episode.url \in MediaTypes THEN episode.url ELSE "video",
     id |-> episode.key]

\* The episode pages (NhkVodIE._VALID_URL, line 89).
VodUrls ==
    [kind : {"vod"}, lang : {"en"}, m_type : MediaTypes, id : 1..MaxEpisodes]

\* NhkVodIE._match_valid_url(url), lines 26 and 89
MatchVod(url) == url.kind = "vod"

\* What the episode API and the m3u8 download answer when an episode is
\* fetched: the list data.episodes (line 22) and the formats (line 72,
\* fatal=False).
VodReplies ==
    [episodes : {<<>>} \cup {<<Keyed(e, 0)>> : e \in FetchedEpisodes},
     formats : {<<>>, <<"hls">>}]

NoReply == [episodes |-> <<>>, formats |-> <<>>]

\* lines 34-60: the title is <<series, title>> for '%s - %s' and <<title>>
\* for the title alone
EpisodeInfo(url, episode) ==
    [id |-> <<url.id, url.lang>>,
     title |-> IF episode.title # None /\ episode.sub_title # None
               THEN <<episode.title, episode.sub_title>>
               ELSE <<episode.sub_title>>,
     series |-> episode.title,
     type |-> "video", ie_key |-> None, url |-> <<>>, formats |-> <<"none">>]

\* _extract_episode_info with the audio episode always handed on, fetched
\* or not
extract_episode_info_always_redirects(url, given, reply) ==
    IF ~MatchVod(url) THEN <<"raise", "AttributeError">>
    ELSE IF given = <<>> /\ reply.episodes = <<>> THEN <<"raise", "IndexError">>
    ELSE LET episode == IF given = <<>> THEN reply.episodes[1] ELSE given[1]
             info == EpisodeInfo(url, episode)
         IN  IF episode.sub_title = None THEN <<"raise", "KeyError">>
             ELSE IF url.m_type = "video"
             THEN IF episode.vod_id = None THEN <<"raise", "KeyError">>
                  ELSE <<"return", [info EXCEPT !.type = "url_transparent",
                                        !.ie_key = "Piksel",
                                        !.url = <<"piksel", episode.vod_id>>,
                                        !.id = episode.vod_id]>>
             ELSE <<"return", [info EXCEPT !.type = "url_transparent",
                                   !.ie_key = "NhkVod", !.url = <<url>>]>>

\* _extract_episode_info(url, episode), lines 24-85: given is <<>> for
\* episode=None and <<episode>> otherwise; reply is what the network answers
\* when the episode is fetched.
extract_episode_info(url, given, reply) ==
    IF ~MatchVod(url) THEN <<"raise", "AttributeError">>                \* 26
    ELSE IF given = <<>> /\ reply.episodes = <<>>
    THEN <<"raise", "IndexError">>                                      \* 33
    ELSE LET episode == IF given = <<>> THEN reply.episodes[1] ELSE given[1]
             info == EpisodeInfo(url, episode)
         IN  IF episode.sub_title = None THEN <<"raise", "KeyError">>   \* 34
             ELSE IF url.m_type = "video"                               \* 61
             THEN IF episode.vod_id = None THEN <<"raise", "KeyError">> \* 62
                  ELSE <<"return", [info EXCEPT !.type = "url_transparent",
                                        !.ie_key = "Piksel",
                                        !.url = <<"piksel", episode.vod_id>>,
                                        !.id = episode.vod_id]>>
             ELSE IF given = <<>>                                       \* 70
             THEN IF episode.audio = None THEN <<"raise", "KeyError">>  \* 71
                  ELSE <<"return", [info EXCEPT !.formats = reply.formats]>>
             ELSE <<"return", [info EXCEPT !.type = "url_transparent",
                                   !.ie_key = "NhkVod", !.url = <<url>>]>>

\* line 180: self.playlist_result(entries, program_id, program_title)
nhk_playlist_result(ents, id, title) ==
    [type |-> "playlist", id |-> id, title |-> title, entries |-> ents]

\* NhkVodProgramIE is called with a program page, the site listing any
\* episodes; or NhkVodIE is called with an episode page.
NhkInit ==
    /\ \/ /\ program \in {<<u>> : u \in ProgramUrls}
          /\ episodes \in EpisodeLists
          /\ nhkpc = "start"
       \/ /\ program = <<>>
          /\ episodes = <<>>
          /\ nhkpc = "vod"
    /\ entries = <<>>
    /\ nextEpisode = 0
    /\ nhkResult = <<>>
    /\ vodCall = <<>>
    /\ FirstIdle /\ ExtractIdle /\ SchoolIdle /\ ListIdle
       /\ TwUserIdle /\ PipeIdle

\* lines 163-168: the program API answers, or the download fails
ProgramCallApi ==
    /\ nhkpc = "start"
    /\ \/ /\ nhkpc' = "loop"
          /\ nextEpisode' = 1
          /\ entries' = <<>>
          /\ UNCHANGED nhkResult
       \/ /\ nhkpc' = "done"
          /\ nhkResult' = << <<"raise", "ExtractorError">> >>
          /\ UNCHANGED <<nextEpisode, entries>>
    /\ UNCHANGED <<program, episodes, vodCall>>
    /\ UNCHANGED nonNhkVars

\* lines 169-174: one turn of the loop
ProgramEpisode ==
    /\ nhkpc = "loop"
    /\ nextEpisode \in 1..Len(episodes)
    /\ LET episode == episodes[nextEpisode]
           r == extract_episode_info(ChildUrl(program[1], episode),
                                     <<episode>>, NoReply)
       IN  IF episode.url = None                                        \* 171
           THEN /\ nextEpisode' = nextEpisode + 1
                /\ UNCHANGED <<nhkpc, entries, nhkResult>>
           ELSE IF r[1] = "raise"
           THEN /\ nhkpc' = "done"
                /\ nhkResult' = <<r>>
                /\ UNCHANGED <<nextEpisode, entries>>
           ELSE /\ entries' = Append(entries, r[2])
                /\ nextEpisode' = nextEpisode + 1
                /\ UNCHANGED <<nhkpc, nhkResult>>
    /\ UNCHANGED <<program, episodes, vodCall>>
    /\ UNCHANGED nonNhkVars

\* lines 176-180
ProgramReturn ==
    /\ nhkpc = "loop"
    /\ nextEpisode = Len(episodes) + 1
    /\ LET program_title == IF entries # <<>> THEN entries[1].series ELSE None
       IN  nhkResult' = << <<"return",
                nhk_playlist_result(entries, program[1].id, program_title)>> >>
    /\ nhkpc' = "done"
    /\ UNCHANGED <<program, episodes, entries, nextEpisode, vodCall>>
    /\ UNCHANGED nonNhkVars

\* The episode pages the entries of a returned playlist hand on to NhkVodIE.
HandedOn ==
    IF nhkpc = "done" /\ nhkResult[1][1] = "return"
    THEN {e.url[1] : e \in {x \in Range(entries) : x.ie_key = "NhkVod"}}
    ELSE {}

\* NhkVodIE._real_extract(url), lines 131-132, on an episode page: one the
\* caller names, or one an entry of the program hands on to NhkVodIE.
VodExtract ==
    /\ vodCall = <<>>
    /\ \E url \in (IF nhkpc = "vod" THEN VodUrls ELSE HandedOn),
          reply \in VodReplies :
        vodCall' = <<[url |-> url, reply |-> reply, handed |-> nhkpc = "done",
                      res |-> extract_episode_info(url, <<>>, reply)]>>
    /\ UNCHANGED <<program, episodes, nhkpc, entries, nextEpisode, nhkResult>>
    /\ UNCHANGED nonNhkVars

NhkNext == ProgramCallApi \/ ProgramEpisode \/ ProgramReturn \/ VodExtract

SpecNhk == NhkInit /\ [][NhkNext]_vars

\* ---------------------------------------------------------------- claims

\* The children of the playlist: the listed episodes that have a page.
HasPage(e) == e.url # None

Children == SelectSeq(episodes, HasPage)

ChildResult(e) == extract_episode_info(ChildUrl(program[1], e), <<e>>, NoReply)

MarkedFailed(entry) == entry.type = "failed"

\* C11: when the program API has answered, the handler ends with a playlist
\* that has one entry per child, in the order of the list; the entry of a
\* child whose extraction fails is marked as failed and the entry of every
\* other child is the result of its extraction.
PartialPlaylistFailure ==
    (nhkpc = "done" /\ nextEpisode > 0) =>
        /\ nhkResult[1][1] = "return"
        /\ Len(nhkResult[1][2].entries) = Len(Children)
        /\ \A k \in 1..Len(Children) :
            LET r == ChildResult(Children[k])
                entry == nhkResult[1][2].entries[k]
            IN  IF r[1] = "raise" THEN MarkedFailed(entry) ELSE entry = r[2]

\* An entry that hands its URL on to NhkVodIE.
RedirectsToVod(info) == info.type = "url_transparent" /\ info.ie_key = "NhkVod"

\* C17: every entry NhkVodProgramIE makes for an audio episode hands the
\* page of that episode on to NhkVodIE, no other entry does, and whatever
\* NhkVodIE returns for a page is no redirect to NhkVodIE: it has formats
\* for an audio page and is a redirect to Piksel for a video page.
NhkRedirectsOnce ==
    /\ \A k \in 1..Len(entries) :
        LET child == ChildUrl(program[1], Children[k])
        IN  IF child.m_type = "audio"
            THEN RedirectsToVod(entries[k]) /\ entries[k].url = <<child>>
            ELSE ~RedirectsToVod(entries[k])
    /\ (vodCall # <<>> /\ vodCall[1].res[1] = "return") =>
        LET info == vodCall[1].res[2]
        IN  /\ ~RedirectsToVod(info)
            /\ IF vodCall[1].url.m_type = "audio"
               THEN info.type = "video" /\ info.formats = vodCall[1].reply.formats
               ELSE info.type = "url_transparent" /\ info.ie_key = "Piksel"

\* A program returned a playlist whose second entry handed an audio page on
\* to NhkVodIE, and NhkVodIE returned formats for that page.
NhkRedirectsOnceWitness ==
    /\ nhkpc = "done" /\ nhkResult[1][1] = "return"
    /\ Len(entries) >= 2 /\ RedirectsToVod(entries[2])
    /\ vodCall # <<>> /\ vodCall[1].handed
    /\ <<vodCall[1].url>> = entries[2].url
    /\ vodCall[1].res[1] = "return"
    /\ vodCall[1].res[2].formats = <<"hls">>

\* ======================================================================
\* _real_extract of TwitCastingIE (yt_dlp/extractor/twitcasting.py) and of
\* MildomIE and MildomVodIE (youtube_dl/extractor/mildom.py)
\* ======================================================================

MediaHandlers == {"TwitCasting", "Mildom", "MildomVod"}

\* The producers of the title of each handler, in the order of its call of
\* try_get.
TitleProducers(h) ==
    CASE h = "TwitCasting" -> <<"meta_og_title">>                 \* twitcasting.py 83
      [] h = "Mildom" -> Producers("title")                       \* mildom.py 128-129
      [] h = "MildomVod" -> <<"meta_og_description", "title">>    \* mildom.py 204-205

\* What a producer of a title can yield: _html_search_meta gives the content
\* of the tag, which may be empty, or None; a field of the API body is as in
\* ProducerYields.
TitleYields(p) ==
    IF p \in {"meta_og_title", "meta_og_description", "meta_twitter_description"}
    THEN {<<"none", "">>, <<"str", "">>, <<"str", "X">>}
    ELSE ProducerYields(p)

\* What the lambda of twitcasting.py 90-92 yields: no data-movie-playlist
\* attribute, one that is no JSON, JSON without ["2"][0], or the dict, with
\* or without ['source']['url'].
PlaylistYields ==
    {<<"raise", "TypeError">>, <<"raise", "ExtractorError">>,
     <<"raise", "KeyError">>, <<"dict", "withSource">>, <<"dict", "noSource">>}

\* What the page and the later requests answer: whether the page has
\* data-status="online", its data-movie-url and data-movie-playlist, and
\* whether every request after the title is answered with what the handler
\* reads from it.
PageData ==
    [online : BOOLEAN, movie_url : {<<"none", "">>, <<"str", "U">>},
     playlist : PlaylistYields, fetch_ok : BOOLEAN]

\* For the Mildom handlers only fetch_ok is read.
MildomPageData ==
    {d \in PageData : ~d.online /\ d.movie_url = <<"none", "">>
                      /\ d.playlist = <<"raise", "TypeError">>}

MediaInfo(h, title, formats, is_live) ==
    [handler |-> h, title |-> title, formats |-> formats, is_live |-> is_live]

\* try_get over the title producers of a handler
TitleOf(h, ty) ==
    try_get([k \in 1..Len(TitleProducers(h)) |-> ty[TitleProducers(h)[k]]], "str")

\* TwitCastingIE._real_extract, lines 68-154
TwitCastingRealExtract(ty, pd) ==
    LET title == TitleOf("TwitCasting", ty)                              \* 81-84
        js == try_get(<<pd.playlist>>, "dict")                           \* 88-92
        video_js_data == IF js.kind = "return" /\ js.value # None
                         THEN js.value ELSE "empty"
        is_live == pd.online                                             \* 93
        m3u8_url == try_get(<<pd.movie_url,                              \* 94-102
                              IF video_js_data = "withSource"
                              THEN <<"str", "J">> ELSE <<"raise", "KeyError">>,
                              IF is_live THEN <<"str", "metastream">>
                              ELSE <<"none", "">> >>, "str")
    IN  IF title.kind = "raise" THEN <<"raise", title.value>>
        ELSE IF ~Truthy(title.value) THEN <<"raise", "ExtractorError">>  \* 85-86
        ELSE IF js.kind = "raise" THEN <<"raise", js.value>>
        ELSE IF m3u8_url.kind = "raise" THEN <<"raise", m3u8_url.value>>
        ELSE IF is_live /\ ~pd.fetch_ok THEN <<"raise", "ExtractorError">> \* 106
        ELSE <<"return",
               MediaInfo("TwitCasting", title.value,
                         IF is_live THEN <<"hls">> ELSE <<m3u8_url.value>>,
                         TRUE)>>                                         \* 142-154

\* MildomIE._real_extract, lines 114-180
MildomRealExtract(ty, pd) ==
    LET title == TitleOf("Mildom", ty)                                   \* 126-130
    IN  IF title.kind = "raise" THEN <<"raise", title.value>>
        ELSE IF ~pd.fetch_ok THEN <<"raise", "ExtractorError">>          \* 144-158
        ELSE <<"return", MediaInfo("Mildom", title.value, <<"hls">>, TRUE)>>

\* MildomVodIE._real_extract, lines 189-261
MildomVodRealExtract(ty, pd) ==
    LET title == TitleOf("MildomVod", ty)                                \* 202-206
    IN  IF title.kind = "raise" THEN <<"raise", title.value>>
        ELSE IF ~pd.fetch_ok THEN <<"raise", "KeyError">>                \* 218-231
        ELSE <<"return",
               MediaInfo("MildomVod", title.value, <<"audio", "video">>, FALSE)>>

\* A media handler is called on a page; the Mildom handlers with or without
\* a cached config.
ExtractInit ==
    /\ handler \in MediaHandlers
    /\ titleYields \in
        {y \in [Range(TitleProducers(handler)) ->
                    UNION {TitleYields(p) : p \in Range(TitleProducers(handler))}] :
            \A p \in Range(TitleProducers(handler)) : y[p] \in TitleYields(p)}
    /\ pageData \in {<<d>> : d \in IF handler = "TwitCasting" THEN PageData
                                   ELSE MildomPageData}
    /\ mediaResult = <<>>
    /\ DISPATCHER_CONFIG \in [Instances -> {None, "cfgA"}]
    /\ GUEST_ID \in [Instances -> {None}]
    /\ cookies = [www |-> None, m |-> None]
    /\ call = <<>>
    /\ active = {}
    /\ ncalls = 0
    /\ firstConfig = <<>>
    /\ firstGuest = <<>>
    /\ chainRuns = 0
    /\ RegIdle /\ TryIdle /\ UserVodIdle /\ NhkIdle /\ SchoolIdle /\ ListIdle
       /\ TwUserIdle /\ PipeIdle

TwitCastingExtract ==
    /\ handler = "TwitCasting"
    /\ mediaResult = <<>>
    /\ mediaResult' = <<TwitCastingRealExtract(titleYields, pageData[1])>>
    /\ UNCHANGED <<handler, titleYields, pageData>>
    /\ UNCHANGED mildomVars
    /\ UNCHANGED nonExtractVars

\* The first _call_api (line 120) fills the caches of the instance.
MildomExtract ==
    /\ handler = "Mildom"
    /\ mediaResult = <<>>
    /\ mediaResult' = <<MildomRealExtract(titleYields, pageData[1])>>
    /\ UserVodCaches(1)
    /\ UNCHANGED <<handler, titleYields, pageData>>
    /\ UNCHANGED nonExtractVars

\* The first _call_api (line 195) fills the caches of the instance.
MildomVodExtract ==
    /\ handler = "MildomVod"
    /\ mediaResult = <<>>
    /\ mediaResult' = <<MildomVodRealExtract(titleYields, pageData[1])>>
    /\ UserVodCaches(1)
    /\ UNCHANGED <<handler, titleYields, pageData>>
    /\ UNCHANGED nonExtractVars

ExtractNext == TwitCastingExtract \/ MildomExtract \/ MildomVodExtract

SpecExtract == ExtractInit /\ [][ExtractNext]_vars

\* ---------------------------------------------------------------- claims

\* The producer yields a title: a string that is not empty.
YieldsTitle(p) == titleYields[p][1] = "str" /\ titleYields[p][2] # ""

\* C12: when none of the title sources of the handler yields a title, the
\* handler raises and returns no media result; whatever TwitCastingIE,
\* MildomIE or MildomVodIE returns has a title that is not null.
NoTitleFails ==
    mediaResult # <<>> =>
        /\ (\A p \in Range(TitleProducers(handler)) : ~YieldsTitle(p))
                => mediaResult[1][1] = "raise"
        /\ mediaResult[1][1] = "return" => mediaResult[1][2].title # None

\* C19: in whatever TwitCastingIE returns, is_live is true exactly when the
\* page has data-status="online".
IsLiveIffOnline ==
    (mediaResult # <<>> /\ handler = "TwitCasting"
        /\ mediaResult[1][1] = "return")
    => (mediaResult[1][2].is_live <=> pageData[1].online)

\* ======================================================================
\* NhkForSchoolSubjectIE and NhkForSchoolProgramListIE, yt_dlp/extractor/nhk.py
\* ======================================================================

\* lines 243-268
KNOWN_SUBJECTS ==
    {"rika", "syakai", "kokugo", "sansuu", "seikatsu", "doutoku", "ongaku",
     "taiiku", "zukou", "gijutsu", "katei", "sougou", "eigo", "tokkatsu",
     "tokushi", "sonota"}

\* A URL is a sequence of pieces: the prefix https://www.nhk.or.jp/school/
\* ("school") or another prefix ("other"), the name of a subject or another
\* name ("foo"), a slash, a character of [a-zA-Z0-9_-] ("w") or another
\* character ("?").
UrlPieces == {"school", "other", "rika", "sougou", "foo", "/", "w", "?"}

SchoolUrls == UNION {[1..n -> UrlPieces] : n \in 0..MaxUrlLen}

NhkForSchoolSubjectIE == <<"NhkForSchoolSubject", 0, "IE">>
NhkForSchoolProgramListIE == <<"NhkForSchoolProgramList", 0, "IE">>

\* re.match of _VALID_URL of line 269: the prefix, then a known subject
SubjectValidUrl(url) ==
    Len(url) >= 2 /\ url[1] = "school" /\ url[2] \in KNOWN_SUBJECTS

\* re.match of _VALID_URL of line 307: the prefix, a known subject, a slash
\* and at least one character of [a-zA-Z0-9_-]
ProgramListValidUrl(url) ==
    /\ Len(url) >= 4 /\ url[1] = "school" /\ url[2] \in KNOWN_SUBJECTS
    /\ url[3] = "/" /\ url[4] = "w"

\* suitable() of the two with the override of lines 289-291 left out
SchoolSuitableByPattern(ie, url) ==
    CASE ie = NhkForSchoolSubjectIE -> SubjectValidUrl(url)
      [] ie = NhkForSchoolProgramListIE -> ProgramListValidUrl(url)
      [] OTHER -> ie = GenericIE

\* cls.suitable(url): lines 289-291 for the subject portal, the match of
\* _VALID_URL for the program list
SchoolSuitable(ie, url) ==
    CASE ie = NhkForSchoolSubjectIE ->
            SubjectValidUrl(url) /\ ~ProgramListValidUrl(url)
      [] ie = NhkForSchoolProgramListIE -> ProgramListValidUrl(url)
      [] OTHER -> ie = GenericIE

\* The first extractor of the list whose suitable() accepts the URL.
RECURSIVE SchoolFirstSuitable(_, _)
SchoolFirstSuitable(ies, url) ==
    IF ies = <<>> THEN NoIE
    ELSE IF SchoolSuitable(Head(ies), url) THEN Head(ies)
         ELSE SchoolFirstSuitable(Tail(ies), url)

\* The two extractors are registered in either order, GenericIE after them
\* (__init__.py line 29).
SchoolInit ==
    /\ schoolUrl \in SchoolUrls
    /\ schoolOrder \in
        {Append(o, GenericIE) :
            o \in Perms({NhkForSchoolSubjectIE, NhkForSchoolProgramListIE})}
    /\ schoolIE = <<>>
    /\ FirstIdle /\ NhkIdle /\ ExtractIdle /\ ListIdle
       /\ TwUserIdle /\ PipeIdle

SchoolResolve ==
    /\ schoolIE = <<>>
    /\ schoolIE' = <<SchoolFirstSuitable(schoolOrder, schoolUrl)>>
    /\ UNCHANGED <<schoolUrl, schoolOrder>>
    /\ UNCHANGED nonSchoolVars

SchoolNext == SchoolResolve

SpecSchool == SchoolInit /\ [][SchoolNext]_vars

\* ---------------------------------------------------------------- claims

\* C14: no URL is accepted by suitable() of both NhkForSchoolSubjectIE and
\* NhkForSchoolProgramListIE; a URL the pattern of the program list matches
\* is rejected by the subject portal and resolves to the program list,
\* whichever of the two is registered first.
SubjectYieldsToProgramList ==
    /\ ~(SchoolSuitable(NhkForSchoolSubjectIE, schoolUrl)
            /\ SchoolSuitable(NhkForSchoolProgramListIE, schoolUrl))
    /\ ProgramListValidUrl(schoolUrl) =>
        /\ ~SchoolSuitable(NhkForSchoolSubjectIE, schoolUrl)
        /\ schoolIE # <<>> => schoolIE = <<NhkForSchoolProgramListIE>>

\* A URL of a program list, which the pattern of the subject portal matches
\* too, was resolved to the program list with the subject portal registered
\* first.
SubjectYieldsToProgramListWitness ==
    /\ schoolOrder[1] = NhkForSchoolSubjectIE
    /\ SubjectValidUrl(schoolUrl) /\ ProgramListValidUrl(schoolUrl)
    /\ schoolIE = <<NhkForSchoolProgramListIE>>

\* ======================================================================
\* list_extractors, yt_dlp/extractor/__init__.py
\* ======================================================================

\* An IE_NAME is <<letter, capital>>: names are told apart by one letter,
\* the n-th of the alphabet, in either case.  The names are "a", "b", "B".
IENames == {<<1, FALSE>>, <<2, FALSE>>, <<2, TRUE>>}

\* str.lower()
Lower(name) == <<name[1], FALSE>>

\* The order of str: every capital letter is before every small letter.
StrLess(a, b) ==
    \/ a[2] /\ ~b[2]
    \/ a[2] = b[2] /\ a[1] < b[1]

\* The age limits list_extractors is called with: <<>> is None.
AgeLimits == {<<>>, <<0>>, <<18>>}

\* The age limit of the content of an extractor.
ContentAgeLimit(ie) == IF ie[2] % 2 = 1 THEN <<18>> ELSE <<>>

\* ie.is_suitable(age_limit): the extractor has no content restricted to an
\* age above age_limit.
is_suitable(ie, age_limit) ==
    \/ age_limit = <<>>
    \/ ContentAgeLimit(ie) = <<>>
    \/ ContentAgeLimit(ie)[1] <= age_limit[1]

\* lines 49-53: one instance per class, in the order of the classes
gen_extractors == gen_extractor_classes

\* sorted(seq, key=...): the elements are put in one by one, each behind
\* every element whose key is not greater.  key is the key by element.
RECURSIVE InsertSorted(_, _, _)
InsertSorted(done, x, key) ==
    IF done = <<>> THEN <<x>>
    ELSE IF StrLess(key[x], key[Head(done)]) THEN <<x>> \o done
         ELSE <<Head(done)>> \o InsertSorted(Tail(done), x, key)

RECURSIVE Sorted(_, _)
Sorted(seq, key) ==
    IF seq = <<>> THEN <<>>
    ELSE InsertSorted(Sorted(SubSeq(seq, 1, Len(seq) - 1), key), Last(seq), key)

\* list_extractors with IE_NAME itself as the key
list_extractors_case_sensitive(age_limit) ==
    LET Keep(ie) == is_suitable(ie, age_limit)
    IN  Sorted(SelectSeq(gen_extractors, Keep), IE_NAME)

\* lines 56-64
list_extractors(age_limit) ==
    LET Keep(ie) == is_suitable(ie, age_limit)
    IN  Sorted(SelectSeq(gen_extractors, Keep),
               [ie \in DOMAIN IE_NAME |-> Lower(IE_NAME[ie])])

\* The module is loaded, without the lazy loader and with any plugins; the
\* extractors have any names.
ListInit ==
    /\ regpc = "loaded"
    /\ lazy = FALSE
    /\ globalsOrder = PreambleNames
            \o [i \in 1..NumBuiltins |-> <<"Builtin", i, "IE">>]
            \o <<GenericIE, StreamlinkIE>>
    /\ PLUGIN_CLASSES \in OrderedSubsets(PluginIEs)
    /\ ALL_CLASSES = WithPlugins(PLUGIN_CLASSES, BuiltClasses(globalsOrder))
    /\ SELFHOSTED_CLASSES = SelfHostedClasses(NamedClasses(globalsOrder))
    /\ resolved = <<>>
    /\ IE_NAME \in [BuiltinIEs \cup PluginIEs \cup {GenericIE} -> IENames]
    /\ listed = <<>>
    /\ MildomIdle /\ TryIdle /\ UserVodIdle /\ NhkIdle /\ ExtractIdle /\ SchoolIdle
       /\ TwUserIdle /\ PipeIdle

ListExtractors ==
    /\ regpc = "loaded"
    /\ listed = <<>>
    /\ \E age_limit \in AgeLimits :
        listed' = <<[age_limit |-> age_limit, classes |-> gen_extractor_classes,
                     ies |-> list_extractors(age_limit)]>>
    /\ UNCHANGED IE_NAME
    /\ UNCHANGED regVars
    /\ UNCHANGED nonListVars

ListNext == ListExtractors

SpecList == ListInit /\ [][ListNext]_vars

\* ---------------------------------------------------------------- claims

\* The place of a class in the list of gen_extractor_classes().
Registered(ie) == CHOOSE k \in 1..Len(ALL_CLASSES) : ALL_CLASSES[k] = ie

\* C15: list_extractors(age_limit) returns the registered extractors that
\* are suitable for age_limit and no other, each once, in the order of their
\* names without regard to case, those of equal names in the order of
\* registration; the list of gen_extractor_classes() is as it was before
\* the call.
ListedSuitableSorted ==
    listed # <<>> =>
        LET L == listed[1].ies IN
        /\ Range(L) = {ie \in Range(gen_extractor_classes) :
                            is_suitable(ie, listed[1].age_limit)}
        /\ Injective(L)
        /\ \A i, j \in 1..Len(L) : i < j =>
            \/ Lower(IE_NAME[L[i]])[1] < Lower(IE_NAME[L[j]])[1]
            \/ /\ Lower(IE_NAME[L[i]]) = Lower(IE_NAME[L[j]])
               /\ Registered(L[i]) < Registered(L[j])
        /\ gen_extractor_classes = listed[1].classes

\* Two extractors whose names differ by case only, the one registered first
\* with the small letter, and one with a name before theirs registered
\* last were listed, an extractor that is not suitable was left out.
ListedSuitableSortedWitness ==
    /\ listed # <<>> /\ Len(listed[1].ies) >= 3
    /\ Len(listed[1].ies) < Len(gen_extractor_classes)
    /\ LET L == listed[1].ies
       IN  /\ IE_NAME[L[2]] = <<2, FALSE>> /\ IE_NAME[L[3]] = <<2, TRUE>>
           /\ IE_NAME[L[1]] = <<1, FALSE>>
           /\ Registered(L[1]) > Registered(L[3])

\* ======================================================================
\* TwitCastingUserIE._entries, yt_dlp/extractor/twitcasting.py
\* ======================================================================

uploader_id == "noriyukicas"

\* line 188: 'https://twitcasting.tv/%s/show' % uploader_id is page 0; the
\* page /<uploader_id>/show/<k>-<n> is page k.
base_url == 0

\* The n-th history page the site serves: the movies it links (told apart
\* by page and place), whether it has a link /<uploader_id>/show/<n>-<digits>
\* to the page after it, and whether it has such a link to another page.
HistoryPage(n, len, next, other) ==
    [movies |-> [k \in 1..len |-> <<uploader_id, "movie", n, k>>],
     next |-> next, other |-> other]

\* The history has a last page, which has no link to a page after it.
Histories ==
    UNION {{[p \in 1..n |-> HistoryPage(p, len[p], nx[p], ot[p])] :
                len \in [1..n -> 0..MaxPageLen],
                nx \in {f \in [1..n -> BOOLEAN] : ~f[n]},
                ot \in [1..n -> BOOLEAN]} : n \in 1..MaxPages}

\* lines 190-191: the page the site serves for the URL
DownloadHistoryPage(h, url) == h[url + 1]

\* line 196: self.url_result(urljoin(base_url, mobj.group('url')))
tw_url_result(movie) == [type |-> "url", url |-> movie]

\* lines 198-203 with the enumeration ended by a page without movies
NextUrlUnlessEmpty(webpage, n) ==
    IF webpage.next /\ webpage.movies # <<>> THEN <<n>> ELSE <<>>

\* lines 198-201: the link to page page_num of the page, or None
NextUrl(webpage, n) == IF webpage.next THEN <<n>> ELSE <<>>

TwUserInit ==
    /\ history \in Histories
    /\ twpc = "start"
    /\ page_num = 0
    /\ next_url = <<>>
    /\ fetched = <<>>
    /\ yielded = <<>>
    /\ FirstIdle /\ NhkIdle /\ ExtractIdle /\ SchoolIdle /\ ListIdle /\ PipeIdle

\* lines 188-189
TwEntriesStart ==
    /\ twpc = "start"
    /\ next_url' = <<base_url>>
    /\ page_num' = 1
    /\ twpc' = "loop"
    /\ UNCHANGED <<history, fetched, yielded>>
    /\ UNCHANGED nonTwUserVars

\* lines 190-203: one turn of the loop
TwEntriesPage ==
    /\ twpc = "loop"
    /\ LET webpage == DownloadHistoryPage(history, next_url[1])
           nxt == NextUrl(webpage, page_num)
       IN  /\ fetched' = Append(fetched, next_url[1])
           /\ yielded' = yielded \o
                [k \in 1..Len(webpage.movies) |-> tw_url_result(webpage.movies[k])]
           /\ next_url' = nxt
           /\ IF nxt = <<>>
              THEN twpc' = "done" /\ UNCHANGED page_num
              ELSE page_num' = page_num + 1 /\ UNCHANGED twpc
    /\ UNCHANGED history
    /\ UNCHANGED nonTwUserVars

TwUserNext == TwEntriesStart \/ TwEntriesPage

SpecTwUser == TwUserInit /\ [][TwUserNext]_vars

\* ---------------------------------------------------------------- claims

\* The first page of the history that has no link to the page after it.
LastLinked ==
    CHOOSE n \in 1..Len(history) :
        ~history[n].next /\ \A p \in 1..(n - 1) : history[p].next

RECURSIVE MoviesOfPages(_)
MoviesOfPages(n) ==
    IF n = 0 THEN <<>>
    ELSE MoviesOfPages(n - 1) \o
            [k \in 1..Len(history[n].movies) |->
                [type |-> "url", url |-> history[n].movies[k]]]

\* C18: _entries fetches the history pages one after the other from the
\* first, none twice; what it has yielded are the movies of the pages
\* fetched, in the order of the pages and of each page; it fetches no page
\* after the first one without a link to the page after it, and it ends
\* only on that page, with or without movies on the pages before.
EntriesUntilNoNextLink ==
    /\ \A i \in 1..Len(fetched) : fetched[i] = i - 1
    /\ Len(fetched) <= LastLinked
    /\ yielded = MoviesOfPages(Len(fetched))
    /\ twpc = "done" <=> Len(fetched) = LastLinked

\* The second page had no movies and a link to the third: the third page
\* was fetched, its movies were yielded and the enumeration ended there.
EntriesUntilNoNextLinkWitness ==
    /\ twpc = "done"
    /\ Len(history) = 3
    /\ history[2].movies = <<>> /\ history[2].next
    /\ Len(history[1].movies) = 1 /\ Len(history[3].movies) = 2
    /\ fetched = <<0, 1, 2>>
    /\ Len(yielded) = 3 /\ yielded[3].url = <<uploader_id, "movie", 3, 2>>

\* ======================================================================
\* Resolution through transparent redirects: TwitCastingLiveIE
\* (yt_dlp/extractor/twitcasting.py), plugin extractors
\* (yt_dlp/extractor/__init__.py) and the step that follows a redirect
\* ======================================================================

TwitCastingLiveIE == <<"TwitCastingLive", 0, "IE">>
TwitCastingIE == <<"TwitCasting", 0, "IE">>

PipeHandlers == PluginIEs \cup {TwitCastingLiveIE, TwitCastingIE}

\* <<"live", u>> is https://twitcasting.tv/<u>, <<"movie", u>> is
\* https://twitcasting.tv/<u>/movie/<id>.
PipeUrls == {"live", "movie"} \X {"ivetesangalo"}

\* _VALID_URL of TwitCastingIE (line 29) and of TwitCastingLiveIE (line 158);
\* a plugin may accept any URL.
PipeSuitable(ie, url) ==
    CASE ie = TwitCastingLiveIE -> url[1] = "live"
      [] ie = TwitCastingIE -> url[1] = "movie"
      [] OTHER -> TRUE

Handed(kind, ie, url) == [kind |-> kind, ie |-> ie, url |-> url]

\* What _real_extract of a handler can return or raise for a URL:
\* TwitCastingLiveIE raises or hands on the URL of the movie, naming no
\* handler (lines 164-177); TwitCastingIE raises or returns a media result
\* (lines 68-154); a plugin does anything, handing on any URL to any handler
\* that accepts it.
HandlerReturns(ie, url) ==
    CASE ie = TwitCastingLiveIE ->
            {Handed("raise", <<>>, <<>>),
             Handed("url", <<>>, << <<"movie", url[2]>> >>)}
      [] ie = TwitCastingIE ->
            {Handed("raise", <<>>, <<>>), Handed("media", <<>>, <<>>)}
      [] OTHER ->
            {Handed("raise", <<>>, <<>>), Handed("media", <<>>, <<>>)}
                \cup {Handed("url", <<h>>, <<u>>) :
                        h \in PipeHandlers, u \in PipeUrls}

\* The handler a URL handed on without the name of a handler resolves to.
PipeResolve(url) == IF url[1] = "movie" THEN TwitCastingIE ELSE TwitCastingLiveIE

\* The handler and the URL the resolution goes on with after a redirect.
Target(r) ==
    [ie |-> IF r.ie = <<>> THEN PipeResolve(r.url[1]) ELSE r.ie[1],
     url |-> r.url[1]]

\* A URL is given to a handler that accepts it.
PipeInit ==
    /\ chain \in {<<[ie |-> h, url |-> u]>> :
                    h \in PipeHandlers, u \in PipeUrls}
    /\ PipeSuitable(chain[1].ie, chain[1].url)
    /\ handed = <<>>
    /\ FirstIdle /\ NhkIdle /\ ExtractIdle /\ SchoolIdle /\ ListIdle /\ TwUserIdle

\* _real_extract of the handler returns or raises.
PipeExtract ==
    /\ chain # <<>>
    /\ handed = <<>>
    /\ \E r \in HandlerReturns(Last(chain).ie, Last(chain).url) :
        /\ r.kind = "url" => PipeSuitable(Target(r).ie, Target(r).url)
        /\ handed' = <<r>>
    /\ UNCHANGED chain
    /\ UNCHANGED nonPipeVars

\* The result is a redirect: the resolution is run again with its URL and
\* handler, however many redirects it has followed.  No more than MaxHops
\* are followed here.
PipeFollow ==
    /\ handed # <<>>
    /\ handed[1].kind = "url"
    /\ Len(chain) <= MaxHops
    /\ chain' = Append(chain, Target(handed[1]))
    /\ handed' = <<>>
    /\ UNCHANGED nonPipeVars

PipeNext == PipeExtract \/ PipeFollow

SpecPipeline == PipeInit /\ [][PipeNext]_vars

\* ---------------------------------------------------------------- claims

\* The redirects followed last that went back to the same handler and URL.
SelfHops ==
    IF chain = <<>> THEN 0
    ELSE CHOOSE k \in 0..(Len(chain) - 1) :
            /\ \A i \in (Len(chain) - k)..Len(chain) : chain[i] = Last(chain)
            /\ k = Len(chain) - 1 \/ chain[Len(chain) - k - 1] # Last(chain)

\* C13: a resolution whose handler hands the URL back to the same handler
\* does not go on following: at a fixed depth, lower than MaxHops, it is cut
\* and fails with RedirectLoop, so MaxHops redirects back to the same
\* handler and URL are never followed.
RedirectLoopCut == SelfHops < MaxHops

====
